---- MODULE Spec2Model ----
(***************************************************************************)
(* Automatic-Savings: a single-owner CosmWasm contract (src/contract.rs).  *)
(* The model covers the three entry points instantiate, execute (Transfer, *)
(* Flush) and query (GetBalance), the STATE storage item, the cw2 version  *)
(* item, and the Response (messages + attributes) or ContractError each    *)
(* call returns.  Uint128 amounts are kept at their full 128-bit width as  *)
(* little-endian sequences of Limbs digits in base Base.                   *)
(***************************************************************************)
EXTENDS Integers, Sequences, FiniteSets, TLC

VARIABLES
    state,            \* the STATE item: <<>> (never saved) or <<State>>
    version,          \* the cw2 contract-version item: <<>> or <<record>>
    overflow_checks,  \* build profile: does `*` on u128 panic on overflow?
    call,             \* the message being / last executed, with its MessageInfo
    result            \* what the last call returned

vars == <<state, version, overflow_checks, call, result>>

----------------------------------------------------------------------------
(* Bounds of the model *)

MaxSmall == 2     \* the small amounts 0..MaxSmall are tried as received_funds
MaxCoins == 2     \* money sets (info.funds, balances) hold up to MaxCoins coins

----------------------------------------------------------------------------
(* Program constants *)

CONTRACT_NAME == "crates.io:automatic-savings"
CONTRACT_VERSION == "CARGO_PKG_VERSION"
MAIN_ADDRESS == "wasm1pze5wsf0dg0fa4ysnttugn0m22ssf3t4a9yz3h"

U8Max == 255      \* savings_rate: u8
Base == 65536     \* one limb of a Uint128
Limbs == 8        \* Limbs limbs of 16 bits = 128 bits

----------------------------------------------------------------------------
(* Uint128 / u128 arithmetic, 128 bits wide *)

\* Uint128::from(n as u32), u128::from(n): n < 2^31 here
Uint128_from(n) ==
    [i \in 1..Limbs |-> IF i = 1 THEN n % Base
                        ELSE IF i = 2 THEN n \div Base ELSE 0]

U128Max == [i \in 1..Limbs |-> Base - 1]

RECURSIVE CmpFrom(_, _, _)
CmpFrom(a, b, i) ==
    IF i = 0 THEN 0
    ELSE IF a[i] < b[i] THEN -1
    ELSE IF a[i] > b[i] THEN 1
    ELSE CmpFrom(a, b, i - 1)

\* a <= b on Uint128
Uint128_le(a, b) == CmpFrom(a, b, Limbs) <= 0

\* carry into limb i of k * a (k is a native integer below 2^8)
RECURSIVE MulCarry(_, _, _)
MulCarry(k, a, i) ==
    IF i = 1 THEN 0
    ELSE (k * a[i - 1] + MulCarry(k, a, i - 1)) \div Base

\* the mathematical product k * a, on Limbs + 1 limbs
FullMul(k, a) ==
    [i \in 1..(Limbs + 1) |->
        IF i <= Limbs THEN (k * a[i] + MulCarry(k, a, i)) % Base
        ELSE MulCarry(k, a, i)]

\* `k * a` on u128: on overflow the build either panics (overflow checks on)
\* or keeps the low 128 bits (overflow checks off)
u128_mul(k, a, checks) ==
    LET p == FullMul(k, a)
        low == [i \in 1..Limbs |-> p[i]]
    IN  [panic |-> (p[Limbs + 1] # 0) /\ checks, value |-> low]

\* remainder of the limbs i..Len(a) of a, divided by d
RECURSIVE DivRem(_, _, _)
DivRem(a, d, i) ==
    IF i > Len(a) THEN 0
    ELSE (DivRem(a, d, i + 1) * Base + a[i]) % d

\* `a / d` truncating, d a native integer below 2^8
u128_div(a, d) ==
    [i \in 1..Len(a) |-> (DivRem(a, d, i + 1) * Base + a[i]) \div d]

----------------------------------------------------------------------------
(* Values *)

Coin(denom, amount) == [denom |-> denom, amount |-> amount]

\* cosmwasm_std::coins(amount, denom): a one-coin vector
coins(amount, denom) == << Coin(denom, amount) >>

BankSend(to, amount) == [to_address |-> to, amount |-> amount]

Attr(k, v) == <<k, v>>

\* Ok(Response) with its messages and attributes
Ok(msgs, attrs) ==
    [err |-> "Ok", messages |-> msgs, attributes |-> attrs, data |-> <<>>]

\* Err(ContractError)
Err(e) ==
    [err |-> e, messages |-> <<>>, attributes |-> <<>>, data |-> <<>>]

\* a panic aborts the call: nothing is returned, nothing is written
Panic == Err("Panic")

\* deps.api.addr_validate
WellFormedAddrs == {MAIN_ADDRESS, "anyone"}
addr_validate(a) == a \in WellFormedAddrs

\* STATE.load(deps.storage)
STATE_load(st) == IF st = <<>> THEN [ok |-> FALSE, value |-> <<>>]
                  ELSE [ok |-> TRUE, value |-> st]

----------------------------------------------------------------------------
(* Entry points *)

\* a plausible slip: the record is owned by whoever instantiates
instantiate_owner_is_sender(st, ver, sender, funds, savings_rate) ==
    [state |-> << [owner |-> sender,
                   amount_received |-> funds,
                   savings_rate |-> savings_rate] >>,
     version |-> << [contract |-> CONTRACT_NAME,
                     version |-> CONTRACT_VERSION] >>,
     response |-> Ok(<<>>, << Attr("action", "instantiate"),
                              Attr("rate", "15") >>)]

\* a plausible slip: the rate is stored in a wider type, off by one
instantiate_rate_plus_one(st, ver, sender, funds, savings_rate) ==
    [state |-> << [owner |-> MAIN_ADDRESS,
                   amount_received |-> funds,
                   savings_rate |-> savings_rate + 1] >>,
     version |-> << [contract |-> CONTRACT_NAME,
                     version |-> CONTRACT_VERSION] >>,
     response |-> Ok(<<>>, << Attr("action", "instantiate"),
                              Attr("rate", "15") >>)]

instantiate(st, ver, sender, funds, savings_rate) ==
    IF ~addr_validate(MAIN_ADDRESS)
    THEN [state |-> st, version |-> ver, response |-> Err("Std")]
    ELSE [state |-> << [owner |-> MAIN_ADDRESS,
                        amount_received |-> funds,
                        savings_rate |-> savings_rate] >>,
          version |-> << [contract |-> CONTRACT_NAME,
                          version |-> CONTRACT_VERSION] >>,
          response |-> Ok(<<>>, << Attr("action", "instantiate"),
                                   Attr("rate", "15") >>)]

\* a plausible slip: the check for a zero rate is forgotten
rate_invalid_no_zero(savings_rate) == savings_rate > 100

\* `savings_rate > 100 || savings_rate == 0`
rate_invalid(savings_rate) == savings_rate > 100 \/ savings_rate = 0

\* a plausible slip: the owner check of Transfer is dropped
transfer_unauthorized_never(sender) == FALSE

\* `String::from(info.sender) != String::from(MAIN_ADDRESS)`
transfer_unauthorized(sender) == sender # MAIN_ADDRESS

\* `String::from(info.sender) != MAIN_ADDRESS`
flush_unauthorized(sender) == sender # MAIN_ADDRESS

\* a plausible slip: `<` for `<=`
transfer_empty_strict(received_funds) ==
    CmpFrom(received_funds.amount, Uint128_from(0), Limbs) < 0

\* `received_funds.amount <= Uint128::from(0 as u32)`
transfer_empty(received_funds) ==
    Uint128_le(received_funds.amount, Uint128_from(0))

\* a plausible slip: `+` for `-`
saved_plus(savings_rate) == 100 + savings_rate

\* `u128::from(100 - savings_rate)`
saved_percent(savings_rate) == 100 - savings_rate

\* a plausible slip: the emptiness check of Flush is dropped
balance_is_empty_never(balance) == FALSE

\* `balance.is_empty()`
balance_is_empty(balance) == balance = <<>>

\* a plausible slip: the caller is checked before the rate
execute_transfer_auth_first(st, sender, received_funds, savings_rate, checks) ==
    IF ~STATE_load(st).ok
    THEN [state |-> st, response |-> Err("Std")]
    ELSE IF transfer_unauthorized(sender)
    THEN [state |-> st, response |-> Err("Unauthorized")]
    ELSE IF rate_invalid(savings_rate)
    THEN [state |-> st, response |-> Err("InvalidSavingsRate")]
    ELSE IF transfer_empty(received_funds)
    THEN [state |-> st, response |-> Err("EmptyTransfer")]
    ELSE LET saved == saved_percent(savings_rate)
             prod == u128_mul(saved, received_funds.amount, checks)
             send_amount == u128_div(prod.value, 100)
             send == coins(send_amount, received_funds.denom)
         IN  IF prod.panic
             THEN [state |-> st, response |-> Panic]
             ELSE [state |-> st,
                   response |-> Ok(<< BankSend(MAIN_ADDRESS, send) >>,
                                   << Attr("action", "transfer") >>)]

\* a plausible slip: a successful Transfer saves its rate into the record
execute_transfer_saves_rate(st, sender, received_funds, savings_rate, checks) ==
    IF ~STATE_load(st).ok
    THEN [state |-> st, response |-> Err("Std")]
    ELSE IF rate_invalid(savings_rate)
    THEN [state |-> st, response |-> Err("InvalidSavingsRate")]
    ELSE IF transfer_unauthorized(sender)
    THEN [state |-> st, response |-> Err("Unauthorized")]
    ELSE IF transfer_empty(received_funds)
    THEN [state |-> st, response |-> Err("EmptyTransfer")]
    ELSE LET saved == saved_percent(savings_rate)
             prod == u128_mul(saved, received_funds.amount, checks)
             send_amount == u128_div(prod.value, 100)
             send == coins(send_amount, received_funds.denom)
         IN  IF prod.panic
             THEN [state |-> st, response |-> Panic]
             ELSE [state |-> << [st[1] EXCEPT !.savings_rate = savings_rate] >>,
                   response |-> Ok(<< BankSend(MAIN_ADDRESS, send) >>,
                                   << Attr("action", "transfer") >>)]

execute_transfer(st, sender, received_funds, savings_rate, checks) ==
    IF ~STATE_load(st).ok
    THEN [state |-> st, response |-> Err("Std")]
    ELSE IF rate_invalid(savings_rate)
    THEN [state |-> st, response |-> Err("InvalidSavingsRate")]
    ELSE IF transfer_unauthorized(sender)
    THEN [state |-> st, response |-> Err("Unauthorized")]
    ELSE IF transfer_empty(received_funds)
    THEN [state |-> st, response |-> Err("EmptyTransfer")]
    ELSE LET saved == saved_percent(savings_rate)
             prod == u128_mul(saved, received_funds.amount, checks)
             send_amount == u128_div(prod.value, 100)
             send == coins(send_amount, received_funds.denom)
         IN  IF prod.panic
             THEN [state |-> st, response |-> Panic]
             ELSE [state |-> st,
                   response |-> Ok(<< BankSend(MAIN_ADDRESS, send) >>,
                                   << Attr("action", "transfer") >>)]

execute_flush(st, sender, balance) ==
    IF ~STATE_load(st).ok
    THEN [state |-> st, response |-> Err("Std")]
    ELSE IF flush_unauthorized(sender)
    THEN [state |-> st, response |-> Err("Unauthorized")]
    ELSE IF balance_is_empty(balance)
    THEN [state |-> st, response |-> Err("EmptyBalance")]
    ELSE [state |-> st,
          response |-> Ok(<< BankSend(MAIN_ADDRESS, balance) >>,
                          << Attr("action", "flush") >>)]

\* query_balance: BalanceResponse { balance }
query_balance(balance) ==
    [err |-> "Ok", messages |-> <<>>, attributes |-> <<>>, data |-> balance]

----------------------------------------------------------------------------
(* Inputs *)

Senders == {MAIN_ADDRESS, "anyone"}
Denoms == {"ATOM", "BTC", "ETH"}
TransferDenoms == {"BTC", "UST"}

Rates == 0..U8Max
SmallRates == {0, 1, 15, 100, 101, U8Max}

SmallAmounts == { Uint128_from(n) : n \in 0..MaxSmall }
BigAmounts == { Uint128_from(99), Uint128_from(100), Uint128_from(8500),
                [i \in 1..Limbs |-> IF i = 5 THEN 1 ELSE 0],
                u128_div(U128Max, 99),
                [i \in 1..Limbs |-> IF i = Limbs THEN Base \div 2 ELSE 0],
                U128Max }
Amounts == SmallAmounts \cup BigAmounts
FewAmounts == SmallAmounts \cup {Uint128_from(8500), U128Max}

\* what the ledger holds of each denomination
MoneyAmount(d) ==
    CASE d = "ATOM" -> Uint128_from(1000)
      [] d = "BTC" -> U128Max
      [] OTHER -> Uint128_from(2000)

\* ordered collections of at most MaxCoins coins with distinct denominations
MoneySets ==
    UNION { { s \in [1..n -> { Coin(d, MoneyAmount(d)) : d \in Denoms }] :
                \A i, j \in 1..n : i # j => s[i].denom # s[j].denom }
            : n \in 0..MaxCoins }

InitFunds == {<<>>, coins(Uint128_from(2), "BTC")}

NoCoin == Coin("", Uint128_from(0))

MkCall(op, sender, funds, rate, rf, bal) ==
    [op |-> op, sender |-> sender, funds |-> funds, savings_rate |-> rate,
     received_funds |-> rf, balance |-> bal]

NoCall == MkCall("none", "", <<>>, 0, NoCoin, <<>>)
NoResponse == Err("Pending")

InstantiateCalls(rates, fundss) ==
    { MkCall("instantiate", s, f, r, NoCoin, <<>>) :
        s \in Senders, f \in fundss, r \in rates }
TransferCalls(rates, amounts) ==
    { MkCall("transfer", s, <<>>, r, Coin(d, a), <<>>) :
        s \in Senders, r \in rates, d \in TransferDenoms, a \in amounts }
FlushCalls ==
    { MkCall("flush", s, <<>>, 0, NoCoin, b) : s \in Senders, b \in MoneySets }
QueryCalls ==
    { MkCall("query", "", <<>>, 0, NoCoin, b) : b \in MoneySets }

----------------------------------------------------------------------------
(* Steps: one whole entry-point call *)

InstantiateStep(c) ==
    LET out == instantiate(state, version, c.sender, c.funds, c.savings_rate)
    IN  /\ call' = c
        /\ state' = out.state
        /\ version' = out.version
        /\ result' = out.response
        /\ UNCHANGED overflow_checks

TransferStep(c) ==
    LET out == execute_transfer(state, c.sender, c.received_funds,
                                c.savings_rate, overflow_checks)
    IN  /\ call' = c
        /\ state' = out.state
        /\ result' = out.response
        /\ UNCHANGED <<version, overflow_checks>>

FlushStep(c) ==
    LET out == execute_flush(state, c.sender, c.balance)
    IN  /\ call' = c
        /\ state' = out.state
        /\ result' = out.response
        /\ UNCHANGED <<version, overflow_checks>>

QueryStep(c) ==
    /\ call' = c
    /\ result' = query_balance(c.balance)
    /\ UNCHANGED <<state, version, overflow_checks>>

----------------------------------------------------------------------------
(* Spec: any sequence of calls on a contract, from before instantiation *)

Init ==
    /\ state = <<>>
    /\ version = <<>>
    /\ overflow_checks \in BOOLEAN
    /\ call = NoCall
    /\ result = NoResponse

Instantiate == \E c \in InstantiateCalls(SmallRates, InitFunds) : InstantiateStep(c)
ExecuteTransfer == \E c \in TransferCalls(SmallRates, FewAmounts) : TransferStep(c)
ExecuteFlush == \E c \in FlushCalls : FlushStep(c)
Query == \E c \in QueryCalls : QueryStep(c)

Next == Instantiate \/ ExecuteTransfer \/ ExecuteFlush \/ Query

Spec == Init /\ [][Next]_vars

----------------------------------------------------------------------------
(* SpecCall: one call, its arguments drawn from their whole range, on a    *)
(* contract that is either not instantiated or was instantiated before     *)

StoredStates ==
    { <<>>,
      instantiate(<<>>, <<>>, "anyone", <<>>, 0).state,
      instantiate(<<>>, <<>>, "anyone", coins(Uint128_from(2), "BTC"), 15).state }

InitCall ==
    /\ state \in StoredStates
    /\ version = IF state = <<>> THEN <<>>
                 ELSE instantiate(<<>>, <<>>, "anyone", <<>>, 0).version
    /\ overflow_checks \in BOOLEAN
    /\ call \in InstantiateCalls(Rates, MoneySets)
                \cup TransferCalls(Rates, Amounts)
                \cup FlushCalls \cup QueryCalls
    /\ result = NoResponse

CallInstantiate ==
    result = NoResponse /\ call.op = "instantiate" /\ InstantiateStep(call)
CallTransfer ==
    result = NoResponse /\ call.op = "transfer" /\ TransferStep(call)
CallFlush ==
    result = NoResponse /\ call.op = "flush" /\ FlushStep(call)
CallQuery ==
    result = NoResponse /\ call.op = "query" /\ QueryStep(call)

NextCall == CallInstantiate \/ CallTransfer \/ CallFlush \/ CallQuery

SpecCall == InitCall /\ [][NextCall]_vars

----------------------------------------------------------------------------
(* Properties *)

Initialized == state # <<>>
IsOwner(c) == c.sender = MAIN_ADDRESS
ZeroAmount(c) == c.received_funds.amount = Uint128_from(0)
NothingEmitted(r) == r.messages = <<>>

\* floor((100 - r) * A / 100) over the integers, as a Uint128
ExactForward(r, A) ==
    LET q == u128_div(FullMul(100 - r, A), 100)
    IN  [i \in 1..Limbs |-> q[i]]

\* C1 (as stated): on an initialized contract every Transfer and every Flush
\* by a caller other than the owner fails with Unauthorized, emits nothing
\* and leaves the record unchanged, whatever the other arguments.
C1_Original ==
    [][ (Initialized /\ call'.op \in {"transfer", "flush"} /\ ~IsOwner(call'))
        => (result'.err = "Unauthorized" /\ NothingEmitted(result')
            /\ state' = state) ]_vars

\* C1 (amended): on an initialized contract, a caller other than the owner
\* gets Unauthorized from every Flush and from every Transfer whose
\* savings_rate is in 1..100, and InvalidSavingsRate from a Transfer whose
\* savings_rate is 0 or above 100; in each case nothing is emitted and the
\* record is unchanged.
C1_NonOwnerRejected ==
    [][ (Initialized /\ call'.op \in {"transfer", "flush"} /\ ~IsOwner(call'))
        => /\ result'.err =
                IF call'.op = "transfer" /\ call'.savings_rate \notin 1..100
                THEN "InvalidSavingsRate" ELSE "Unauthorized"
           /\ NothingEmitted(result')
           /\ state' = state ]_vars

C1_Witness ==
    /\ Initialized /\ call.op = "transfer" /\ ~IsOwner(call)
    /\ call.savings_rate = 100 /\ call.received_funds.amount = U128Max
    /\ result.err = "Unauthorized"

\* C2 (as stated): on an initialized contract an owner Transfer of amount 0
\* fails with EmptyTransfer for every savings_rate in 0..255.
C2_Original ==
    [][ (Initialized /\ call'.op = "transfer" /\ IsOwner(call')
         /\ ZeroAmount(call'))
        => result'.err = "EmptyTransfer" ]_vars

\* C2 (amended): on an initialized contract an owner Transfer of amount 0
\* fails with EmptyTransfer for every savings_rate in 1..100 and every
\* denomination, and with InvalidSavingsRate for savings_rate 0 or above 100;
\* nothing is emitted.
C2_EmptyTransfer ==
    [][ (Initialized /\ call'.op = "transfer" /\ IsOwner(call')
         /\ ZeroAmount(call'))
        => /\ result'.err = IF call'.savings_rate \in 1..100
                            THEN "EmptyTransfer" ELSE "InvalidSavingsRate"
           /\ NothingEmitted(result') ]_vars

C2_Witness ==
    /\ Initialized /\ call.op = "transfer" /\ IsOwner(call) /\ ZeroAmount(call)
    /\ call.savings_rate = 100 /\ result.err = "EmptyTransfer"

C4_ExactSplit ==
    [][ (Initialized /\ call'.op = "transfer" /\ IsOwner(call')
         /\ call'.savings_rate \in 1..100 /\ ~ZeroAmount(call'))
        => /\ result'.err = "Ok"
           /\ result'.messages =
                << BankSend(MAIN_ADDRESS,
                            coins(ExactForward(call'.savings_rate,
                                               call'.received_funds.amount),
                                  call'.received_funds.denom)) >> ]_vars

\* C5: on an initialized contract an owner Flush fails with EmptyBalance and
\* emits nothing when the queried balance is empty, and otherwise succeeds
\* with exactly one instruction, to the owner, carrying the queried balance
\* as it is.
C5_Flush ==
    [][ (Initialized /\ call'.op = "flush" /\ IsOwner(call'))
        => IF call'.balance = <<>>
           THEN result'.err = "EmptyBalance" /\ NothingEmitted(result')
           ELSE /\ result'.err = "Ok"
                /\ result'.messages =
                     << BankSend(MAIN_ADDRESS, call'.balance) >> ]_vars

C5_Witness ==
    /\ Initialized /\ call.op = "flush" /\ IsOwner(call)
    /\ Len(call.balance) = MaxCoins /\ result.err = "Ok"
    /\ Len(result.messages) = 1

\* C6: Initialize succeeds for every caller, every savings_rate in 0..255
\* and every attached money set, emits nothing, and leaves the record equal
\* to {owner = the designated owner, savings_rate = the input rate,
\* amount_received = the attached funds}.
C6_Initialize ==
    [][ call'.op = "instantiate"
        => /\ result'.err = "Ok"
           /\ NothingEmitted(result')
           /\ state' = << [owner |-> MAIN_ADDRESS,
                           savings_rate |-> call'.savings_rate,
                           amount_received |-> call'.funds] >> ]_vars

C6_Witness ==
    /\ call.op = "instantiate" /\ ~IsOwner(call) /\ call.savings_rate = U8Max
    /\ call.funds # <<>> /\ result.err = "Ok"
    /\ state[1].owner = MAIN_ADDRESS

\* C7: Transfer, Flush and GetBalance never change the record, whether they
\* fail or succeed.
C7_RecordFrame ==
    [][ call'.op \in {"transfer", "flush", "query"} => state' = state ]_vars

C7_Witness ==
    /\ Initialized /\ call.op = "transfer" /\ result.err = "Ok"
    /\ state[1].savings_rate # call.savings_rate

\* C8: every instruction emitted is addressed to the owner; one emitted by
\* Transfer carries a single money value in the denomination of
\* received_funds whose amount is at most received_funds.amount, and one
\* emitted by Flush carries exactly the queried balance.
C8_NeverFabricated ==
    \A i \in 1..Len(result.messages) :
        LET m == result.messages[i]
        IN  /\ m.to_address = MAIN_ADDRESS
            /\ call.op \in {"transfer", "flush"}
            /\ call.op = "transfer" =>
                 /\ Len(m.amount) = 1
                 /\ m.amount[1].denom = call.received_funds.denom
                 /\ Uint128_le(m.amount[1].amount, call.received_funds.amount)
            /\ call.op = "flush" => m.amount = call.balance

C8_Witness ==
    /\ call.op = "transfer" /\ result.err = "Ok" /\ Len(result.messages) = 1
    /\ call.received_funds.amount = U128Max /\ call.savings_rate = 15

C10_CheckOrder ==
    [][ call'.op = "transfer"
        => /\ IF ~Initialized THEN result'.err = "Std"
              ELSE IF call'.savings_rate \notin 1..100
                   THEN result'.err = "InvalidSavingsRate"
              ELSE IF ~IsOwner(call') THEN result'.err = "Unauthorized"
              ELSE IF ZeroAmount(call') THEN result'.err = "EmptyTransfer"
              ELSE result'.err \in {"Ok", "Panic"}
           /\ \/ result'.err = "Ok" /\ Len(result'.messages) = 1
              \/ result'.err # "Ok" /\ NothingEmitted(result') ]_vars

C10_Witness ==
    /\ Initialized /\ call.op = "transfer" /\ ~IsOwner(call) /\ ZeroAmount(call)
    /\ call.savings_rate = U8Max /\ result.err = "InvalidSavingsRate"

====
